---- MODULE Spec2Model ----
(***************************************************************************)
(* Model of darts' mixed-data sampling transformer                         *)
(* (darts/dataprocessing/transformers/midas.py): MIDAS.ts_transform,       *)
(* MIDAS.ts_inverse_transform, MIDAS._verify_series and _create_midas_df,  *)
(* and of the split of the training series in RegressionEnsembleModel.fit  *)
(* (darts/models/forecasting/regression_ensemble_model.py).                *)
(*                                                                         *)
(* Timestamps are whole seconds since 2019-01-01 00:00:00.  Strings the    *)
(* code inspects character by character (frequency names, component       *)
(* names) are sequences of one-character strings.                          *)
(***************************************************************************)
EXTENDS Integers, Sequences, FiniteSets, TLC

(***************************************************************************)
(* Bounds of the model.                                                    *)
(***************************************************************************)
\* low-frequency periods a high-frequency input series may cover
MaxPeriods == 3
\* rows of a low-frequency series given directly (a prediction, or the
\* input of a transform in the wrong direction)
MaxLowRows == 3
\* length of a daily input series
MaxDays == 62
\* months of the calendar table
NMonths == 48
\* points of a training series given to RegressionEnsembleModel.fit
MaxPoints == 4
\* calls of fit on one RegressionEnsembleModel
MaxFits == 2

(***************************************************************************)
(* Calendar.                                                               *)
(***************************************************************************)
Hour == 60 * 60
Day == 24 * Hour

Min(a, b) == IF a <= b THEN a ELSE b
Max(a, b) == IF a >= b THEN a ELSE b

IsLeap(y) == (y % 4 = 0 /\ y % 100 # 0) \/ y % 400 = 0

\* days of calendar month mi (0 = January 2019)
DaysInMonth(mi) ==
    LET y == 2019 + (mi \div 12)
        m == (mi % 12) + 1
    IN  IF m = 2 THEN (IF IsLeap(y) THEN 29 ELSE 28)
        ELSE IF m \in {4, 6, 9, 11} THEN 30 ELSE 31

\* day number (0 = 2019-01-01) of the first day of month mi
MonthStartTab[mi \in 0..NMonths] ==
    IF mi = 0 THEN 0 ELSE MonthStartTab[mi - 1] + DaysInMonth(mi - 1)

MonthStart(mi) == MonthStartTab[mi] * Day

\* calendar month containing timestamp t
MonthOf(t) ==
    CHOOSE mi \in 0..(NMonths - 1) : MonthStart(mi) <= t /\ t < MonthStart(mi + 1)

(***************************************************************************)
(* Character strings.                                                      *)
(***************************************************************************)
DigitChars == <<"0", "1", "2", "3", "4", "5", "6", "7", "8", "9">>

\* str(n) of a non-negative integer
RECURSIVE Str(_)
Str(n) == IF n < 10 THEN <<DigitChars[n + 1]>>
          ELSE Str(n \div 10) \o <<DigitChars[(n % 10) + 1]>>

\* Python's `sub in s`
Contains(sub, s) ==
    \E i \in 1..(Len(s) - Len(sub) + 1) : SubSeq(s, i, i + Len(sub) - 1) = sub

\* Python's s[:-k] for k >= 1
DropLast(s, k) == SubSeq(s, 1, Max(Len(s) - k, 0))

(***************************************************************************)
(* pandas frequencies.  A frequency is named by its freqstr.               *)
(***************************************************************************)
FreqStrs == {"S", "T", "15T", "H", "D", "M", "MS", "Q-DEC", "QS-JAN", "Q-SEP",
             "A-DEC", "AS-JAN"}

\* the characters of a freqstr (series.freq_str)
FreqChars(f) ==
    CASE f = "S" -> <<"S">>
      [] f = "T" -> <<"T">>
      [] f = "15T" -> <<"1", "5", "T">>
      [] f = "H" -> <<"H">>
      [] f = "D" -> <<"D">>
      [] f = "M" -> <<"M">>
      [] f = "MS" -> <<"M", "S">>
      [] f = "Q-DEC" -> <<"Q", "-", "D", "E", "C">>
      [] f = "QS-JAN" -> <<"Q", "S", "-", "J", "A", "N">>
      [] f = "Q-SEP" -> <<"Q", "-", "S", "E", "P">>
      [] f = "A-DEC" -> <<"A", "-", "D", "E", "C">>
      [] f = "AS-JAN" -> <<"A", "S", "-", "J", "A", "N">>

\* str(series.freq): the repr of the pandas offset
OffsetRepr(f) ==
    CASE f = "S" -> <<"<", "S", "e", "c", "o", "n", "d", ">">>
      [] f = "T" -> <<"<", "M", "i", "n", "u", "t", "e", ">">>
      [] f = "15T" -> <<"<", "1", "5", " ", "*", " ", "M", "i", "n", "u", "t", "e", "s", ">">>
      [] f = "H" -> <<"<", "H", "o", "u", "r", ">">>
      [] f = "D" -> <<"<", "D", "a", "y", ">">>
      [] f = "M" -> <<"<", "M", "o", "n", "t", "h", "E", "n", "d", ">">>
      [] f = "MS" -> <<"<", "M", "o", "n", "t", "h", "B", "e", "g", "i", "n", ">">>
      [] f = "Q-DEC" -> <<"<", "Q", "u", "a", "r", "t", "e", "r", "E", "n", "d", ":", " ", "s", "t", "a", "r", "t", "i", "n", "g", "M", "o", "n", "t", "h", "=", "1", "2", ">">>
      [] f = "QS-JAN" -> <<"<", "Q", "u", "a", "r", "t", "e", "r", "B", "e", "g", "i", "n", ":", " ", "s", "t", "a", "r", "t", "i", "n", "g", "M", "o", "n", "t", "h", "=", "1", ">">>
      [] f = "Q-SEP" -> <<"<", "Q", "u", "a", "r", "t", "e", "r", "E", "n", "d", ":", " ", "s", "t", "a", "r", "t", "i", "n", "g", "M", "o", "n", "t", "h", "=", "9", ">">>
      [] f = "A-DEC" -> <<"<", "Y", "e", "a", "r", "E", "n", "d", ":", " ", "m", "o", "n", "t", "h", "=", "1", "2", ">">>
      [] f = "AS-JAN" -> <<"<", "Y", "e", "a", "r", "B", "e", "g", "i", "n", ":", " ", "m", "o", "n", "t", "h", "=", "1", ">">>

\* pandas.tseries.frequencies.to_offset(rule).freqstr
to_offset(rule) ==
    CASE rule = "Q" -> "Q-DEC"
      [] rule = "QS" -> "QS-JAN"
      [] rule = "A" -> "A-DEC"
      [] rule = "AS" -> "AS-JAN"
      [] OTHER -> rule

\* DatetimeIndex.to_period().freqstr: get_period_alias, or the freqstr itself
PeriodAlias(f) ==
    CASE f = "MS" -> "M"
      [] f = "QS-JAN" -> "Q-DEC"
      [] f = "AS-JAN" -> "A-DEC"
      [] OTHER -> f

\* rule_code of a frequency: its name without multiple and anchor
RuleCode(f) ==
    CASE f = "15T" -> "T"
      [] f \in {"Q-DEC", "Q-SEP"} -> "Q"
      [] f = "QS-JAN" -> "QS"
      [] f = "A-DEC" -> "A"
      [] f = "AS-JAN" -> "AS"
      [] OTHER -> f

\* the multiple n of a frequency
FreqMult(f) == IF f = "15T" THEN 15 ELSE 1

IsTick(f) == RuleCode(f) \in {"S", "T", "H", "D"}

\* seconds of one base unit of a tick frequency
TickUnit(f) ==
    CASE RuleCode(f) = "S" -> 1
      [] RuleCode(f) = "T" -> 60
      [] RuleCode(f) = "H" -> Hour
      [] RuleCode(f) = "D" -> Day

\* pandas.tseries.frequencies.is_subperiod(source, target)
is_subperiod(source, target) ==
    LET s == RuleCode(source)
        t == RuleCode(target)
    IN  CASE t = "A" -> s \in {"Q", "D", "M", "H", "T", "S"}
          [] t = "Q" -> s \in {"D", "M", "H", "T", "S"}
          [] t = "M" -> s \in {"D", "H", "T", "S"}
          [] t = "D" -> s \in {"D", "H", "T", "S"}
          [] t = "H" -> s \in {"H", "T", "S"}
          [] t = "T" -> s \in {"T", "S"}
          [] t = "S" -> s \in {"S"}
          [] OTHER -> FALSE

\* pandas.tseries.frequencies.is_superperiod(source, target)
is_superperiod(source, target) ==
    LET s == RuleCode(source)
        t == RuleCode(target)
    IN  CASE s = "A" -> t \in {"Q", "D", "M", "H", "T", "S"}
          [] s = "Q" -> t \in {"D", "M", "H", "T", "S"}
          [] s = "M" -> t \in {"D", "H", "T", "S"}
          [] s = "D" -> t \in {"D", "H", "T", "S"}
          [] s = "H" -> t \in {"H", "T", "S"}
          [] s = "T" -> t \in {"T", "S"}
          [] s = "S" -> t \in {"S"}
          [] OTHER -> FALSE

(***************************************************************************)
(* Periods.  A period of frequency pf is its ordinal: the count of base    *)
(* units (seconds, minutes, hours, days, months, quarters, years) since    *)
(* the epoch; a period of a multiple frequency (15T) covers FreqMult units *)
(* from its ordinal on.                                                    *)
(***************************************************************************)
\* ordinal of the base unit of pf that contains timestamp t
Ordinal(pf, t) ==
    CASE IsTick(pf) -> t \div TickUnit(pf)
      [] RuleCode(pf) = "M" -> MonthOf(t)
      [] RuleCode(pf) = "Q" -> MonthOf(t) \div 3
      [] RuleCode(pf) = "A" -> MonthOf(t) \div 12

\* first second of base unit o of pf
OrdStart(pf, o) ==
    CASE IsTick(pf) -> o * TickUnit(pf)
      [] RuleCode(pf) = "M" -> MonthStart(o)
      [] RuleCode(pf) = "Q" -> MonthStart(3 * o)
      [] RuleCode(pf) = "A" -> MonthStart(12 * o)

\* Period.asfreq(target, how="start")
AsFreqStart(pf, o, target) == Ordinal(target, OrdStart(pf, o))

\* Period.asfreq(target, how="end"): the target unit holding the period's last second
AsFreqEnd(pf, o, target) == Ordinal(target, OrdStart(pf, o + FreqMult(pf)) - 1)

\* PeriodIndex.to_timestamp(how="start")
ToTimestampStart(pf, o) == OrdStart(pf, o)

\* PeriodIndex.to_timestamp(freq=pf): the period's last day for a calendar
\* period (2020-01 -> 2020-01-31), its start for a tick period
ToTimestampFreq(pf, o) ==
    IF IsTick(pf) THEN OrdStart(pf, o) ELSE OrdStart(pf, o + 1) - Day

\* floor of t on the grid of multiples of a tick frequency from the start of
\* t's day (resample's origin="start_day")
TickFloor(f, t) == t - ((t % Day) % (FreqMult(f) * TickUnit(f)))

\* pandas.period_range(start, end, freq=pf) as a sequence of ordinals
period_range(start, end, pf) ==
    [i \in 1..(((end - start) \div FreqMult(pf)) + 1) |-> start + (i - 1) * FreqMult(pf)]

(***************************************************************************)
(* Series and frames.  A TimeSeries is a record of its frequency, time     *)
(* index, component names and values (one row per timestamp, one cell per  *)
(* component); a missing value is NaN.  Its static covariates are a table  *)
(* of rows of attribute values, or none.                                    *)
(***************************************************************************)
NaN == -1

\* series.static_covariates is None
NoStaticCovariates == <<>>

TimeSeries(freq, times, columns, values) ==
    [freq |-> freq, time_index |-> times, components |-> columns, values |-> values,
     is_probabilistic |-> FALSE, has_datetime_index |-> TRUE,
     static_covariates |-> NoStaticCovariates]

\* the series with the table given as static_covariates=...
with_static_covariates(ts, covs) == [ts EXCEPT !.static_covariates = covs]

NoSeries == TimeSeries("none", <<>>, <<>>, <<>>)

Returned(ts) == [status |-> "ok", error |-> "", ts |-> ts]
Raised(kind) == [status |-> "error", error |-> kind, ts |-> NoSeries]
NotCalled == [status |-> "none", error |-> "", ts |-> NoSeries]

\* the error kinds of the transformer (all but KeyError are ValueErrors)
ErrProbabilistic == "ValueError: cannot be applied to probabilistic/stochastic TimeSeries"
ErrIndex == "ValueError: input series must have a pd.Datetime index"
ErrMultivariate == "ValueError: cannot be applied to multivariate TimeSeries"
ErrDirection == "ValueError: the target conversion should go from a high to a low frequency"
ErrMultiple == "ValueError: the high frequency should be an exact multiple of the low frequency"
ErrIncompatible == "ValueError: IncompatibleFrequency"
ErrTimedelta == "ValueError: invalid unit abbreviation"
ErrKey == "KeyError: not in index"

\* _verify_series that ignores check_multivariate: more than one component
\* is rejected in the inverse mode too
_verify_series_AlwaysUnivariate(series, check_multivariate) ==
    IF series.is_probabilistic THEN ErrProbabilistic
    ELSE IF ~series.has_datetime_index THEN ErrIndex
    ELSE IF Len(series.components) > 1 THEN ErrMultivariate
    ELSE ""

\* MIDAS._verify_series: the error it raises, or "" when it returns
_verify_series(series, check_multivariate) ==
    IF series.is_probabilistic THEN ErrProbabilistic
    ELSE IF ~series.has_datetime_index THEN ErrIndex
    ELSE IF check_multivariate /\ Len(series.components) > 1 THEN ErrMultivariate
    ELSE ""

\* series_df.resample(rule).last().index: one label per low-frequency bin from
\* the bin of the first timestamp to the bin of the last one
ResampleIndex(times, rule) ==
    LET f == to_offset(rule)
        first == times[1]
        last == times[Len(times)]
    IN  IF IsTick(f)
        THEN LET step == FreqMult(f) * TickUnit(f)
                 a == TickFloor(f, first)
             IN  [i \in 1..(((TickFloor(f, last) - a) \div step) + 1) |-> a + (i - 1) * step]
        ELSE LET pf == PeriodAlias(f)
                 a == Ordinal(pf, first)
                 \* TimeGrouper: closed and label are "right" for the end types
                 right == RuleCode(f) \in {"M", "Q", "A"}
             IN  [i \in 1..(Ordinal(pf, last) - a + 1) |->
                     IF right THEN OrdStart(pf, a + i) - Day ELSE OrdStart(pf, a + i - 1)]

\* low_index_datetime.to_period()
to_period(times, f) ==
    [freq |-> PeriodAlias(f), ordinals |-> [i \in 1..Len(times) |-> Ordinal(PeriodAlias(f), times[i])]]

\* whether PeriodIndexResampler accepts the pair (else IncompatibleFrequency)
PeriodResampleOk(ax_freq, target) ==
    is_subperiod(ax_freq, target) \/ is_superperiod(ax_freq, target) \/ ax_freq = target

\* low_freq_series_df.resample(high_freq_period).last().index: the period
\* range from the first period's start to the last period's end
PeriodResampleIndex(pidx, target) ==
    LET n == Len(pidx.ordinals)
        start == AsFreqStart(pidx.freq, pidx.ordinals[1], target)
        end == AsFreqEnd(pidx.freq, pidx.ordinals[n], target)
        \* _get_period_range_edges, for a Tick target
        p_start == IF IsTick(target)
                   THEN Ordinal(target, TickFloor(target, OrdStart(target, start)))
                   ELSE start
        p_end == IF IsTick(target)
                 THEN Ordinal(target, TickFloor(target, OrdStart(target, end)))
                 ELSE end
    IN  [freq |-> target, ordinals |-> period_range(p_start, p_end, target)]

\* high_freq_series_df.index.to_timestamp(**args_to_timestamp)
to_timestamp(pidx, end_anchored) ==
    [i \in 1..Len(pidx.ordinals) |->
        IF end_anchored THEN ToTimestampFreq(pidx.freq, pidx.ordinals[i])
        ELSE ToTimestampStart(pidx.freq, pidx.ordinals[i])]

DataFrame(index, columns, values) == [index |-> index, columns |-> columns, values |-> values]

Range(seq) == {seq[i] : i \in 1..Len(seq)}

\* position of label t in an index
IndexOf(index, t) == CHOOSE i \in 1..Len(index) : index[i] = t

\* ExpandedValues that fills the frame by position, not by timestamp: the
\* observations first, the NaN rows after them
ExpandedValues_ByPosition(high_index_datetime, series_copy_df) ==
    [i \in 1..Len(high_index_datetime) |->
        IF i <= Len(series_copy_df.index)
        THEN series_copy_df.values[i]
        ELSE [c \in 1..Len(series_copy_df.columns) |-> NaN]]

\* pd.DataFrame(np.nan, index=high_index_datetime, columns=...) followed by
\* series_df.loc[series_copy_df.index, :] = series_copy_df.values
ExpandedValues(high_index_datetime, series_copy_df) ==
    [i \in 1..Len(high_index_datetime) |->
        IF high_index_datetime[i] \in Range(series_copy_df.index)
        THEN series_copy_df.values[IndexOf(series_copy_df.index, high_index_datetime[i])]
        ELSE [c \in 1..Len(series_copy_df.columns) |-> NaN]]

\* MidasColumns that loops over range(multiple - 1): the last offset is lost
MidasColumns_OneShort(col_names, multiple) ==
    [j \in 1..((multiple - 1) * Len(col_names)) |->
        col_names[((j - 1) % Len(col_names)) + 1] \o <<"_">> \o Str((j - 1) \div Len(col_names))]

\* the column names of the wide frame: for every offset f, col_name + f"_{f}"
MidasColumns(col_names, multiple) ==
    [j \in 1..(multiple * Len(col_names)) |->
        col_names[((j - 1) % Len(col_names)) + 1] \o <<"_">> \o Str((j - 1) \div Len(col_names))]

\* MidasValues that takes column f as the f-th block of n_low consecutive
\* rows instead of every multiple-th row from f on
MidasValues_Blocks(values, n_cols, n_low, multiple) ==
    [r \in 1..n_low |->
        [j \in 1..(multiple * n_cols) |->
            values[((j - 1) \div n_cols) * n_low + r][((j - 1) % n_cols) + 1]]]

\* series_df.iloc[range_lst[f:][0::multiple], :] for f in range(multiple),
\* re-indexed by low_index_datetime and concatenated along the columns
MidasValues(values, n_cols, n_low, multiple) ==
    [r \in 1..n_low |->
        [j \in 1..(multiple * n_cols) |->
            values[((j - 1) \div n_cols) + (r - 1) * multiple + 1][((j - 1) % n_cols) + 1]]]

\* _create_midas_df
_create_midas_df(series_df, low_index_datetime) ==
    LET n_high == Len(series_df.index)
        n_low == Len(low_index_datetime)
    IN  IF n_high % n_low # 0 THEN Raised(ErrMultiple)
        ELSE LET multiple == n_high \div n_low
             IN  Returned(DataFrame(low_index_datetime,
                                    MidasColumns(series_df.columns, multiple),
                                    MidasValues(series_df.values, Len(series_df.columns),
                                                n_low, multiple)))

IsNaNRow(row) == \A c \in 1..Len(row) : row[c] = NaN

\* TimeSeries.strip: drop the leading and trailing rows whose cells are all NaN
strip(ts) ==
    LET valid == {i \in 1..Len(ts.values) : ~IsNaNRow(ts.values[i])}
        lo == CHOOSE i \in valid : \A j \in valid : i <= j
        hi == CHOOSE i \in valid : \A j \in valid : i >= j
    IN  IF valid = {} THEN [ts EXCEPT !.time_index = <<>>, !.values = <<>>]
        ELSE [ts EXCEPT !.time_index = SubSeq(ts.time_index, lo, hi),
                        !.values = SubSeq(ts.values, lo, hi)]

\* WrongDirection with a non-strict comparison: equal row counts pass
WrongDirection_NonStrict(n_low, n_high) == ~(n_low <= n_high)

\* the guard of the direction error: raise_if_not(n_low < n_high, ...)
WrongDirection(n_low, n_high) == ~(n_low < n_high)

\* PeriodEndConversion that looks at the offset of the target rule
PeriodEndConversion_ByTarget(series, rule) ==
    Contains(<<"E", "n", "d">>, OffsetRepr(to_offset(rule)))

\* "End" in str(series.freq): to_timestamp is called with freq=high_freq_period
\* (the end of each period) when TRUE, with how="start" when FALSE
PeriodEndConversion(series, rule) ==
    Contains(<<"E", "n", "d">>, OffsetRepr(series.freq))

\* MIDAS.ts_transform
ts_transform(series, rule, strip_) ==
    LET verify == _verify_series(series, TRUE)
        high_freq_period == PeriodAlias(series.freq)
        low_index_datetime == ResampleIndex(series.time_index, rule)
        low_index_period == to_period(low_index_datetime, to_offset(rule))
        high_index_period == PeriodResampleIndex(low_index_period, high_freq_period)
        high_index_datetime ==
            to_timestamp(high_index_period, PeriodEndConversion(series, rule))
        series_copy_df == DataFrame(series.time_index, series.components, series.values)
        expand == Len(high_index_datetime) > Len(series.time_index)
        series_df == IF expand
                     THEN DataFrame(high_index_datetime, series.components,
                                    ExpandedValues(high_index_datetime, series_copy_df))
                     ELSE series_copy_df
        midas_df == _create_midas_df(series_df, low_index_datetime)
        midas_ts == with_static_covariates(
                        TimeSeries(to_offset(rule), midas_df.ts.index,
                                   midas_df.ts.columns, midas_df.ts.values),
                        series.static_covariates)
    IN  IF verify # "" THEN Raised(verify)
        ELSE IF ~PeriodResampleOk(low_index_period.freq, high_freq_period)
        THEN Raised(ErrIncompatible)
        ELSE IF WrongDirection(Len(low_index_datetime), Len(high_index_period.ordinals))
        THEN Raised(ErrDirection)
        ELSE IF expand /\ ~(Range(series.time_index) \subseteq Range(high_index_datetime))
        THEN Raised(ErrKey)
        ELSE IF midas_df.status # "ok" THEN midas_df
        ELSE Returned(IF strip_ THEN strip(midas_ts) ELSE midas_ts)

(***************************************************************************)
(* The inverse transform.                                                  *)
(***************************************************************************)
\* t - pd.DateOffset(months=k): k months back, the day clipped to the month
SubMonths(t, k) ==
    LET mi == MonthOf(t)
        target == mi - k
        dom == (t - MonthStart(mi)) \div Day
    IN  MonthStart(target) + Min(dom, DaysInMonth(target) - 1) * Day + (t % Day)

\* months in one period of a calendar frequency
MonthsPer(f) ==
    CASE RuleCode(f) \in {"A", "AS"} -> 12
      [] RuleCode(f) \in {"Q", "QS"} -> 3
      [] OTHER -> 1

\* pd.date_range(start=start, periods=periods, freq=f): start rolled forward
\* onto the frequency, then one timestamp per step
date_range(start, periods, f) ==
    IF IsTick(f)
    THEN [i \in 1..periods |-> start + (i - 1) * FreqMult(f) * TickUnit(f)]
    ELSE LET k == MonthsPer(f)
             mi == MonthOf(start)
             p == mi \div k
             tod == start % Day
         IN  IF RuleCode(f) \in {"M", "Q", "A"}
             THEN [i \in 1..periods |-> MonthStart((p + i) * k) - Day + tod]
             ELSE LET on == start - tod = MonthStart(p * k)
                      p0 == IF on THEN p ELSE p + 1
                  IN  [i \in 1..periods |-> MonthStart((p0 + i - 1) * k) + tod]

\* the units pd.Timedelta(value=1, unit=...) accepts, in seconds
TimedeltaUnits == {"D", "H", "T", "S"}

\* Timedelta.resolution_string of a whole number of seconds
resolution_string(td) ==
    IF td % 60 # 0 THEN "S"
    ELSE IF (td \div 60) % 60 # 0 THEN "T"
    ELSE IF (td \div Hour) % 24 # 0 THEN "H"
    ELSE "D"

\* series.values().flatten(): the cells row by row
Flatten(values, n_components) ==
    [i \in 1..(Len(values) * n_components) |->
        values[((i - 1) \div n_components) + 1][((i - 1) % n_components) + 1]]

\* the start of the reconstructed index: the first low timestamp, moved
\* n_components - 1 months back when the name has a "Q" and no "S"
InverseStart(series) ==
    LET start_time == series.time_index[1]
        n_components == Len(series.components)
        low_freq_name == FreqChars(series.freq)
    IN  IF Contains(<<"Q">>, low_freq_name) /\ ~Contains(<<"S">>, low_freq_name)
        THEN SubMonths(start_time, n_components - 1)
        ELSE start_time

\* the high frequency name: "M" when the low name has a "Q", else the
\* resolution of one low unit divided by the number of components
InverseFreq(series) ==
    LET n_components == Len(series.components)
    IN  IF Contains(<<"Q">>, FreqChars(series.freq)) THEN "M"
        ELSE resolution_string(TickUnit(series.freq) \div n_components)

\* series.components[-1][: -len(f"_{n_components}")]
InverseComponentName(series) ==
    LET n_components == Len(series.components)
    IN  DropLast(series.components[n_components], Len(<<"_">> \o Str(n_components)))

\* MIDAS.ts_inverse_transform
ts_inverse_transform(series) ==
    LET verify == _verify_series(series, FALSE)
        n_components == Len(series.components)
        series_values == Flatten(series.values, n_components)
        high_freq_name == InverseFreq(series)
        new_times == date_range(InverseStart(series), Len(series_values), high_freq_name)
    IN  IF verify # "" THEN Raised(verify)
        ELSE IF ~Contains(<<"Q">>, FreqChars(series.freq)) /\ series.freq \notin TimedeltaUnits
        THEN Raised(ErrTimedelta)
        ELSE Returned(with_static_covariates(
                        TimeSeries(high_freq_name, new_times,
                                   <<InverseComponentName(series)>>,
                                   [i \in 1..Len(series_values) |-> <<series_values[i]>>]),
                        series.static_covariates))

(***************************************************************************)
(* The inputs: the series a caller may hand to the transformer.            *)
(***************************************************************************)
\* 2020-01-01 00:00:00
T0 == MonthStart(12)

NameValues == <<"v", "a", "l", "u", "e", "s">>
NameOther == <<"o", "t", "h", "e", "r">>

\* the observation at row i of component c of an input series
Val(c, i) == (c - 1) * 1000 + i

\* a series of n rows at frequency f, with no NaN, whose first row is slot g0
\* (from 0) of pd.date_range(start=start, freq=f)
InputSeries(f, start, g0, n, columns) ==
    TimeSeries(f, SubSeq(date_range(start, g0 + n, f), g0 + 1, g0 + n), columns,
               [i \in 1..n |-> [c \in 1..Len(columns) |-> Val(c, i)]])

Input(series, rule, kind) == [series |-> series, rule |-> rule, kind |-> kind]

\* high frequency, target rule and the number of high slots per low period
ValidPairs ==
    { <<"S", "T", 60>>, <<"15T", "H", 4>>,
      <<"M", "QS", 3>>, <<"M", "Q", 3>>, <<"M", "Q-SEP", 3>>,
      <<"MS", "QS", 3>>, <<"MS", "Q", 3>> }

\* series frequency and a target rule equal to or finer than it
WrongPairs ==
    { <<"T", "S">>, <<"T", "T">>, <<"S", "S">>, <<"H", "15T">>, <<"H", "H">>,
      <<"15T", "15T">>,
      <<"QS-JAN", "M">>, <<"QS-JAN", "Q">>, <<"QS-JAN", "QS">>,
      <<"Q-DEC", "M">>, <<"Q-DEC", "MS">>, <<"Q-DEC", "Q">>, <<"Q-DEC", "QS">>,
      <<"M", "M">>, <<"M", "MS">>, <<"MS", "M">>, <<"MS", "MS">> }

\* start slots within the first low period, and lengths, of a high series
StartSlots(ratio) == {k \in 0..(ratio - 1) : k \in {0, 1, 2, ratio - 1}}
Lengths(ratio) == {n \in 1..(MaxPeriods * ratio) : n % ratio \in {0, 1, ratio - 1}}

\* univariate high-frequency series and a coarser target
HighInputs ==
    UNION { { Input(InputSeries(pr[1], T0, g0, n, <<NameValues>>), pr[2], "high") :
                g0 \in StartSlots(pr[3]), n \in Lengths(pr[3]) } : pr \in ValidPairs }

\* daily series and the monthly target
DayStartMonths == {12, 13, 24, 25}
DayStartOffsets == {0, 14}
DailyInputs ==
    { Input(InputSeries("D", MonthStart(m), d, n, <<NameValues>>), "M", "daily") :
        m \in DayStartMonths, d \in DayStartOffsets, n \in 1..MaxDays }

\* series and a target that is not coarser
WrongInputs ==
    { Input(InputSeries(pr[1], T0, g0, n, <<NameValues>>), pr[2], "wrong") :
        pr \in WrongPairs, g0 \in 0..1, n \in 1..MaxLowRows }

\* monthly series of two components and a quarterly target
MultivariateInputs ==
    { Input(InputSeries(f, T0, 0, 3 * n, <<NameValues, NameOther>>), rule, "multivariate") :
        f \in {"M", "MS"}, rule \in {"QS", "Q"}, n \in 1..MaxPeriods }

\* a low-frequency series of `rows` rows with the wide columns
\* values_0 .. values_{ncols-1}: a forecast made on a transformed series
WideSeries(f, start, rows, ncols) ==
    TimeSeries(f, date_range(start, rows, f), MidasColumns(<<NameValues>>, ncols),
               [r \in 1..rows |-> [j \in 1..ncols |-> Val(1, (r - 1) * ncols + j)]])

\* low frequency, the rule that names it and the number of wide columns
WideShapes ==
    { <<"QS-JAN", "QS", 3>>, <<"Q-DEC", "Q", 3>>, <<"Q-SEP", "Q-SEP", 3>>,
      <<"T", "T", 60>>, <<"H", "H", 4>>, <<"H", "H", 60>>, <<"D", "D", 24>>, <<"D", "D", 4>> }

\* monthly or quarterly frequency, the annual target and the number of high
\* slots per year
AnnualPairs ==
    { <<"M", "AS", 12>>, <<"MS", "AS", 12>>, <<"Q-DEC", "AS", 4>>, <<"QS-JAN", "AS", 4>> }

\* whole years an annual input may span from T0 within the calendar table
AnnualYears == (NMonths \div 12) - 2

\* lengths of a series to the annual target (9: the months of monthly_ts)
AnnualLengths(ratio) ==
    {n \in 1..(AnnualYears * ratio) : n % ratio \in {0, 1, ratio - 1} \/ n = 9}

\* univariate monthly and quarterly series and the annual-start target
AnnualInputs ==
    UNION { { Input(InputSeries(pr[1], T0, g0, n, <<NameValues>>), pr[2], "annual") :
                g0 \in StartSlots(pr[3]), n \in AnnualLengths(pr[3]) } : pr \in AnnualPairs }

\* pd.Series(data=[0, 1], index=["static_0", "static_1"]): one global row
GlobalStaticCovs == <<<<0, 1>>>>

\* univariate monthly series with static covariates and a quarterly target
StaticInputs ==
    { Input(with_static_covariates(InputSeries("M", T0, g0, n, <<NameValues>>),
                                   GlobalStaticCovs), rule, "static") :
        g0 \in StartSlots(3), n \in Lengths(3), rule \in {"QS", "Q"} }

\* a series with more than one sample per timestamp
Stochastic(ts) == [ts EXCEPT !.is_probabilistic = TRUE]

\* a series of n rows indexed by pd.RangeIndex(n), whose freq is the step 1
RangeIndexSeries(n, columns) ==
    [TimeSeries("1", [i \in 1..n |-> i - 1], columns,
                [i \in 1..n |-> [c \in 1..Len(columns) |-> Val(c, i)]])
        EXCEPT !.has_datetime_index = FALSE]

\* series _verify_series rejects whatever the mode: stochastic ones and
\* integer-indexed ones, univariate, multivariate and wide
InvalidSeries ==
    LET shapes == { InputSeries("M", T0, 0, 3 * n, cols) :
                        n \in 1..MaxPeriods, cols \in {<<NameValues>>, <<NameValues, NameOther>>} }
                  \cup { WideSeries(f, T0, rows, 3) : f \in {"QS-JAN", "Q-DEC"}, rows \in 1..MaxLowRows }
        ranges == { RangeIndexSeries(n, cols) :
                        n \in 1..MaxLowRows,
                        cols \in {<<NameValues>>, <<NameValues, NameOther>>,
                                  MidasColumns(<<NameValues>>, 3)} }
    IN  { Stochastic(ts) : ts \in shapes \cup ranges } \cup ranges

InvalidInputs == { Input(ts, rule, "invalid") : ts \in InvalidSeries, rule \in {"QS", "Q"} }

PredictionInputs ==
    { Input(WideSeries(sh[1], date_range(T0, q + 1, sh[1])[q + 1], rows, sh[3]), sh[2], "prediction") :
        sh \in WideShapes, q \in 0..3, rows \in 1..MaxLowRows }

\* a low-frequency series of `rows` rows with the given columns
WideSeriesNamed(f, start, rows, columns) ==
    TimeSeries(f, date_range(start, rows, f), columns,
               [r \in 1..rows |-> [j \in 1..Len(columns) |-> Val(1, (r - 1) * Len(columns) + j)]])

\* col_name + f"_{f}"
Suffixed(col_name, f) == col_name \o <<"_">> \o Str(f)

\* column names that are not one base name suffixed _0 .. _{ratio-1}, or
\* not three of them for a quarterly series
MalformedColumns ==
    { <<Suffixed(NameValues, 0), Suffixed(NameOther, 1), Suffixed(NameValues, 2)>>,
      <<NameValues, Suffixed(NameValues, 1), Suffixed(NameValues, 2)>>,
      <<NameValues \o <<"_", "a">>, NameValues \o <<"_", "b">>, NameValues \o <<"_", "c">>>>,
      <<Suffixed(NameValues, 1), Suffixed(NameValues, 2), Suffixed(NameValues, 3)>>,
      MidasColumns(<<NameValues>>, 2),
      MidasColumns(<<NameValues>>, 4) }

\* quarterly series with such columns, given to inverse_transform
MalformedInputs ==
    { Input(WideSeriesNamed(to_offset(rule), date_range(T0, q + 1, to_offset(rule))[q + 1],
                            rows, cols), rule, "malformed") :
        rule \in {"QS", "Q"}, q \in 0..1, rows \in 1..MaxLowRows, cols \in MalformedColumns }

\* the series with NaN in the given cells <<row, component>>
WithMissing(ts, cells) ==
    [ts EXCEPT !.values =
        [i \in 1..Len(ts.values) |->
            [c \in 1..Len(ts.components) |->
                IF <<i, c>> \in cells THEN NaN ELSE ts.values[i][c]]]]

\* the wide form of a series of several components covering whole low
\* periods: columns A_0, B_0, A_1, B_1, ..., one row per low period
Interleaved(ts, rule, ratio) ==
    LET low_index == ResampleIndex(ts.time_index, rule)
    IN  TimeSeries(to_offset(rule), low_index, MidasColumns(ts.components, ratio),
                   MidasValues(ts.values, Len(ts.components), Len(low_index), ratio))

\* the cells missing in the second component: none, or rows 4 and 5
MissingCells == { {}, {<<4, 2>>, <<5, 2>>} }

\* quarterly wide series made of a monthly series of two components
WideMultivariateInputs ==
    { Input(Interleaved(WithMissing(InputSeries("M", T0, 0, 3 * n, <<NameValues, NameOther>>),
                                    cells), rule, 3), rule, "wide_multivariate") :
        n \in 1..MaxPeriods, cells \in MissingCells, rule \in {"QS", "Q"} }

\* a base name with an underscore
NameUnderscore == <<"a", "_", "b">>

\* low frequency and number of wide columns, among them 10 and 100
NamedShapes == { <<"QS-JAN", 3>>, <<"H", 2>>, <<"H", 4>>, <<"T", 10>>, <<"H", 100>> }

\* wide series with the columns b_0 .. b_{r-1} of a base name b
NamedInputs ==
    { Input(WideSeriesNamed(sh[1], T0, rows, MidasColumns(<<b>>, sh[2])), sh[1], "named") :
        sh \in NamedShapes, b \in {NameValues, NameUnderscore}, rows \in 1..MaxLowRows }

\* the rows without observation of a monthly series of nine rows: whole
\* leading, trailing or interior quarters, or single boundary months
MissingRows ==
    { {1, 2, 3}, {1, 2, 3, 4}, {7, 8, 9}, {6, 7, 8, 9}, {1}, {9}, {4, 5, 6},
      {1, 2, 3, 7, 8, 9}, {2, 3, 4, 5, 6, 7, 8} }

\* univariate monthly series with missing observations and a quarterly target
GappyInputs ==
    { Input(WithMissing(InputSeries(f, T0, g0, 9, <<NameValues>>),
                        {<<i, 1>> : i \in rows}), rule, "gappy") :
        f \in {"M", "MS"}, g0 \in StartSlots(3), rows \in MissingRows, rule \in {"QS", "Q"} }

Inputs ==
    HighInputs \cup DailyInputs \cup WrongInputs \cup MultivariateInputs
    \cup PredictionInputs \cup AnnualInputs \cup StaticInputs \cup InvalidInputs
    \cup MalformedInputs \cup WideMultivariateInputs \cup NamedInputs \cup GappyInputs

(***************************************************************************)
(* RegressionEnsembleModel: the constructor's check of                     *)
(* regression_train_n_points and the split of the training series in fit.  *)
(* A training series is known by its number of points only.                *)
(***************************************************************************)
ErrMinusOne == "ValueError: regression_train_n_points can be set to -1 only if retrain_forecasting_model=False and all the forecasting_models are already fitted"
ErrTooBig == "ValueError: regression_train_n_points parameter too big (must be smaller or equal to the number of points in training_series)"

\* RegressionEnsembleModel.__init__: the model built, or the error raised
RegressionEnsembleModel(regression_train_n_points, all_trained, retrain_forecasting_models) ==
    LET refused == /\ regression_train_n_points = -1
                   /\ ~(all_trained /\ ~retrain_forecasting_models)
    IN  [status |-> IF refused THEN "error" ELSE "ok",
         error |-> IF refused THEN ErrMinusOne ELSE "",
         regression_train_n_points |-> regression_train_n_points,
         train_n_points |-> regression_train_n_points,
         all_trained |-> all_trained,
         retrain_forecasting_models |-> retrain_forecasting_models]

NoEnsemble == [RegressionEnsembleModel(0, FALSE, TRUE) EXCEPT !.status = "none"]

\* the series argument of fit: one TimeSeries or a sequence of them, each
\* given by len(ts)
Training(is_single_series, lens) == [is_single_series |-> is_single_series, lens |-> lens]

NoTraining == Training(TRUE, <<>>)

\* min(len(ts) for ts in series)
MinLen(lens) == CHOOSE m \in Range(lens) : \A x \in Range(lens) : m <= x

\* self.train_n_points after lines 168-173 of fit
TrainNPoints(self, training_series) ==
    IF self.train_n_points = -1
    THEN (IF training_series.is_single_series THEN training_series.lens[1]
          ELSE MinLen(training_series.lens))
    ELSE self.train_n_points

\* train_n_points_too_big
train_n_points_too_big(self, training_series) ==
    IF self.train_n_points = -1 THEN FALSE
    ELSE IF training_series.is_single_series
    THEN training_series.lens[1] <= self.train_n_points
    ELSE \E i \in 1..Len(training_series.lens) : training_series.lens[i] <= self.train_n_points

\* len(ts[:-n]) and len(ts[-n:]) of Python slicing, for n >= 0
LenHead(len, n) == IF n = 0 THEN 0 ELSE Max(len - n, 0)
LenTail(len, n) == IF n = 0 THEN len ELSE Min(n, len)

Fitted(forecast_training, regression_target) ==
    [status |-> "ok", error |-> "", forecast_training |-> forecast_training,
     regression_target |-> regression_target]
FitRaised(error) ==
    [status |-> "error", error |-> error, forecast_training |-> <<>>, regression_target |-> <<>>]
NotFitted == [FitRaised("") EXCEPT !.status = "none"]

\* RegressionEnsembleModel.fit up to the split of the series: the error
\* raised, or the lengths of forecast_training and regression_target
fit(self, training_series) ==
    LET n == TrainNPoints(self, training_series)
        lens == training_series.lens
    IN  IF train_n_points_too_big(self, training_series) THEN FitRaised(ErrTooBig)
        ELSE Fitted([i \in 1..Len(lens) |-> LenHead(lens[i], n)],
                    [i \in 1..Len(lens) |-> LenTail(lens[i], n)])

\* the training series fit may be given
TrainingSeries ==
    { Training(TRUE, <<l>>) : l \in 1..MaxPoints }
    \cup { Training(FALSE, <<l1, l2>>) : l1 \in 1..MaxPoints, l2 \in 1..MaxPoints }

(***************************************************************************)
(* The state machine: a transformer is built with rule and strip, and is   *)
(* given a series; transform and inverse_transform are then applied.  A    *)
(* RegressionEnsembleModel is built and fitted on training series.         *)
(***************************************************************************)
VARIABLES series, kind, _rule, _strip, pc, midas, inverse,
          ensemble, training, fitted, calls

\* the kinds of input that are wide series: they are given to
\* inverse_transform only
WideKinds == {"prediction", "malformed", "wide_multivariate", "named"}

midas_vars == <<series, kind, _rule, _strip, pc, midas, inverse>>
ensemble_vars == <<ensemble, training, fitted, calls>>
vars == <<series, kind, _rule, _strip, pc, midas, inverse,
          ensemble, training, fitted, calls>>

Init ==
    \E in \in Inputs, st \in BOOLEAN :
        /\ series = in.series
        /\ kind = in.kind
        /\ _rule = in.rule
        /\ _strip = st
        /\ pc = "start"
        /\ midas = NotCalled
        /\ inverse = NotCalled
        /\ ensemble = NoEnsemble
        /\ training = NoTraining
        /\ fitted = NotFitted
        /\ calls = 0

\* midas.transform(series)
Transform ==
    /\ pc = "start"
    /\ kind \notin WideKinds
    /\ midas' = ts_transform(series, _rule, _strip)
    /\ pc' = "transformed"
    /\ UNCHANGED <<series, kind, _rule, _strip, inverse>>
    /\ UNCHANGED ensemble_vars

\* midas.inverse_transform(midas.transform(series))
InverseTransform ==
    /\ pc = "transformed"
    /\ midas.status = "ok"
    /\ inverse' = ts_inverse_transform(midas.ts)
    /\ pc' = "inverted"
    /\ UNCHANGED <<series, kind, _rule, _strip, midas>>
    /\ UNCHANGED ensemble_vars

\* midas.inverse_transform(prediction)
InverseTransformPrediction ==
    /\ pc = "start"
    /\ kind \in WideKinds \cup {"invalid"}
    /\ inverse' = ts_inverse_transform(series)
    /\ pc' = "inverted"
    /\ UNCHANGED <<series, kind, _rule, _strip, midas>>
    /\ UNCHANGED ensemble_vars

Next == Transform \/ InverseTransform \/ InverseTransformPrediction

Spec == Init /\ [][Next]_vars

\* RegressionEnsembleModel(forecasting_models, regression_train_n_points, ...):
\* retrain_forecasting_models=False is supported only with pretrained models
InitEnsemble ==
    \E n \in -1..(MaxPoints + 1), all_trained \in BOOLEAN, retrain \in BOOLEAN :
        /\ retrain \/ all_trained
        /\ ensemble = RegressionEnsembleModel(n, all_trained, retrain)
        /\ training = NoTraining
        /\ fitted = NotFitted
        /\ calls = 0
        /\ series = NoSeries
        /\ kind = "none"
        /\ _rule = "none"
        /\ _strip = FALSE
        /\ pc = "start"
        /\ midas = NotCalled
        /\ inverse = NotCalled

\* model.fit(series)
Fit ==
    /\ ensemble.status = "ok"
    /\ calls < MaxFits
    /\ \E training_series \in TrainingSeries :
          /\ training' = training_series
          /\ fitted' = fit(ensemble, training_series)
          /\ ensemble' = [ensemble EXCEPT !.train_n_points = TrainNPoints(ensemble, training_series)]
    /\ calls' = calls + 1
    /\ UNCHANGED midas_vars

NextEnsemble == Fit

SpecEnsemble == InitEnsemble /\ [][NextEnsemble]_vars

(***************************************************************************)
(* Notions the properties are stated in.                                   *)
(***************************************************************************)
\* the wide series handed to the inverse transform
InverseInput == IF kind = "prediction" THEN series ELSE midas.ts

\* the period frequency of the target rule
LowOf(rule) == PeriodAlias(to_offset(rule))

\* the number of high-frequency slots in one low period of a valid pair
RatioOf(f, rule) == (CHOOSE pr \in ValidPairs : pr[1] = f /\ pr[2] = rule)[3]

\* nominal length of one step of a frequency, in days for calendar periods
NominalSeconds(f) ==
    CASE IsTick(f) -> FreqMult(f) * TickUnit(f)
      [] RuleCode(f) \in {"M", "MS"} -> 30 * Day
      [] RuleCode(f) \in {"Q", "QS"} -> 91 * Day
      [] RuleCode(f) \in {"A", "AS"} -> 365 * Day

\* position (from 0) of the high slot holding t within its low period
SlotOf(f, rule, t) ==
    IF IsTick(f)
    THEN (t - OrdStart(LowOf(rule), Ordinal(LowOf(rule), t))) \div (FreqMult(f) * TickUnit(f))
    ELSE (MonthOf(t) - MonthOf(OrdStart(LowOf(rule), Ordinal(LowOf(rule), t))))
            \div MonthsPer(f)

FirstTime(ts) == ts.time_index[1]
LastTime(ts) == ts.time_index[Len(ts.time_index)]

\* the low periods the span of the input series touches
FirstLow == Ordinal(LowOf(_rule), FirstTime(series))
LastLow == Ordinal(LowOf(_rule), LastTime(series))
TouchedLow == LastLow - FirstLow + 1

\* the timestamp a low period carries in the down-sampled index: the last
\* day of the period for the month-end and quarter-end rules, else its start
LowStamp(rule, o) ==
    IF rule \in {"M", "Q", "Q-SEP"} THEN OrdStart(LowOf(rule), o + 1) - Day
    ELSE OrdStart(LowOf(rule), o)

\* the series covers whole low periods
CoversWholePeriods ==
    /\ SlotOf(series.freq, _rule, FirstTime(series)) = 0
    /\ Len(series.time_index) % RatioOf(series.freq, _rule) = 0

WideName(name, k) == name \o <<"_">> \o Str(k)

SameSeries(a, b) ==
    /\ a.time_index = b.time_index
    /\ a.values = b.values
    /\ a.components = b.components

(***************************************************************************)
(* C1: round-trip law.  For a univariate series with no missing value      *)
(* whose length is divisible by the ratio, at any of the high frequencies  *)
(* and whether or not it starts on a low-period boundary, the inverse of   *)
(* the transform with strip = false equals the series in timestamps,       *)
(* values and component name.                                              *)
(***************************************************************************)
\* C1: inverse(transform(S)) = S in timestamps, values and component name
C1_RoundTrip ==
    (/\ pc = "inverted"
     /\ kind = "high"
     /\ ~_strip
     /\ Len(series.time_index) % RatioOf(series.freq, _rule) = 0)
    => (inverse.status = "ok" /\ SameSeries(inverse.ts, series))

(***************************************************************************)
(* C2: forward layout.  A month-end-stamped monthly series covering whole  *)
(* quarters, transformed to QS or Q, has one row per quarter stamped with  *)
(* the quarter's start (resp. end) date, columns values_0, values_1,       *)
(* values_2 in that order, and row r, column k holds original row 3r + k.  *)
(***************************************************************************)
\* C2: the case of the claim: the transform was applied to such a series
C2_Case ==
    /\ pc # "start"
    /\ kind = "high"
    /\ series.freq = "M"
    /\ _rule \in {"QS", "Q"}
    /\ CoversWholePeriods

\* C2: one row per quarter, stamped and laid out as claimed
C2_ForwardLayout ==
    C2_Case =>
        LET n == Len(series.time_index) \div 3
            q0 == MonthOf(FirstTime(series)) \div 3
            out == midas.ts
        IN  /\ midas.status = "ok"
            /\ Len(out.time_index) = n
            /\ Len(out.values) = n
            /\ out.components = <<WideName(NameValues, 0), WideName(NameValues, 1),
                                  WideName(NameValues, 2)>>
            /\ \A r \in 0..(n - 1) :
                  /\ out.time_index[r + 1] =
                        IF _rule = "QS" THEN MonthStart(3 * (q0 + r))
                        ELSE MonthStart(3 * (q0 + r) + 3) - Day
                  /\ Len(out.values[r + 1]) = 3
                  /\ \A k \in 0..2 : out.values[r + 1][k + 1] = series.values[3 * r + k + 1][1]

\* C2 witness: nine months to Q, the third row holds months 7, 8, 9
C2_Witness ==
    /\ C2_Case
    /\ _rule = "Q"
    /\ Len(series.time_index) = 9
    /\ midas.status = "ok"
    /\ midas.ts.values[3] = <<7, 8, 9>>

(***************************************************************************)
(* C3: direction guard.  Whenever the target frequency is equal to or      *)
(* finer than the frequency of the series, the transform raises the        *)
(* wrong-direction ValueError and returns no series.                        *)
(***************************************************************************)
\* C3: the case of the claim: a validated series, a target not coarser
C3_Case ==
    /\ pc = "transformed"
    /\ _verify_series(series, TRUE) = ""
    /\ NominalSeconds(to_offset(_rule)) <= NominalSeconds(series.freq)

C4_RatioGuard ==
    (pc = "transformed" /\ series.freq = "D" /\ _rule = "M")
    => (midas.status = "error" /\ midas.error = ErrMultiple /\ midas.ts = NoSeries)

(***************************************************************************)
(* C5: fan-out cardinality.  Whenever the transform returns a series with  *)
(* strip = false, the result has ratio x components(S) columns, one row    *)
(* per low period the span of S touches (len(S) / ratio when S covers      *)
(* whole periods), and the down-sampled low-frequency index as timestamps. *)
(* The ratio is the number of canonical high-frequency rows of the touched *)
(* low periods divided by the number of those periods.                     *)
(***************************************************************************)
\* the canonical high-frequency rows of the touched low periods
CanonicalRows ==
    IF IsTick(series.freq)
    THEN (OrdStart(LowOf(_rule), LastLow + 1) - OrdStart(LowOf(_rule), FirstLow))
            \div (FreqMult(series.freq) * TickUnit(series.freq))
    ELSE (MonthsPer(to_offset(_rule)) \div MonthsPer(series.freq)) * TouchedLow

\* C5: the case of the claim: a series was returned, strip = false
C5_Case == pc # "start" /\ midas.status = "ok" /\ ~_strip

\* C5: columns, rows and timestamps of the returned series
C5_FanOut ==
    C5_Case =>
        LET out == midas.ts
            ncols == (CanonicalRows \div TouchedLow) * Len(series.components)
        IN  /\ Len(out.components) = ncols
            /\ Len(out.time_index) = TouchedLow
            /\ Len(out.values) = TouchedLow
            /\ \A r \in 1..TouchedLow :
                  /\ Len(out.values[r]) = ncols
                  /\ out.time_index[r] = LowStamp(_rule, FirstLow + r - 1)
            /\ (kind = "high" =>
                  /\ ncols = RatioOf(series.freq, _rule)
                  /\ (CoversWholePeriods =>
                        TouchedLow * RatioOf(series.freq, _rule) = Len(series.time_index)))

\* C5 witness: 119 seconds from second 1 on give 2 rows of 60 columns
C5_Witness ==
    /\ C5_Case
    /\ series.freq = "S"
    /\ Len(series.time_index) = 119
    /\ SlotOf("S", _rule, FirstTime(series)) = 1
    /\ Len(midas.ts.time_index) = 2
    /\ Len(midas.ts.components) = 60

(***************************************************************************)
(* C6: multivariate forward.  The forward transform accepts a series of    *)
(* two components A, B and returns the wide series with the columns A_0,   *)
(* B_0, A_1, B_1, A_2, B_2, each row holding the components' values of     *)
(* that low period in that order; it does not raise the multivariate       *)
(* error.                                                                   *)
(***************************************************************************)
\* C6: the transform of a two-component series returns the interleaved wide series
C6_MultivariateForward ==
    (pc = "transformed" /\ kind = "multivariate") =>
        /\ midas.status = "ok"
        /\ midas.ts.components =
              <<WideName(NameValues, 0), WideName(NameOther, 0),
                WideName(NameValues, 1), WideName(NameOther, 1),
                WideName(NameValues, 2), WideName(NameOther, 2)>>
        /\ \A r \in 1..Len(midas.ts.values) : \A k \in 0..2 : \A c \in 1..2 :
              midas.ts.values[r][2 * k + c] = series.values[3 * (r - 1) + k + 1][c]

(***************************************************************************)
(* C7: gap propagation.  If a univariate series with no missing value      *)
(* lacks the first k1 < ratio rows of its first low period and the last    *)
(* k2 < ratio rows of its last one, the transform with strip = false has   *)
(* NaN in exactly the k1 lowest-offset columns of the first row and the    *)
(* k2 highest-offset columns of the last row; every other cell holds the   *)
(* observation of its slot.                                                 *)
(***************************************************************************)
\* C7: the case of the claim: a univariate series without NaN, strip = false
C7_Case == pc # "start" /\ kind = "high" /\ ~_strip

\* C7: NaN exactly at the uncovered boundary slots, observations elsewhere
C7_GapPropagation ==
    C7_Case =>
        LET ratio == RatioOf(series.freq, _rule)
            k1 == SlotOf(series.freq, _rule, FirstTime(series))
            k2 == ratio - 1 - SlotOf(series.freq, _rule, LastTime(series))
            out == midas.ts
        IN  /\ midas.status = "ok"
            /\ Len(out.values) = TouchedLow
            /\ \A r \in 1..TouchedLow : \A k \in 0..(ratio - 1) :
                  IF (r = 1 /\ k < k1) \/ (r = TouchedLow /\ k > ratio - 1 - k2)
                  THEN out.values[r][k + 1] = NaN
                  ELSE /\ out.values[r][k + 1] = series.values[(r - 1) * ratio + k - k1 + 1][1]
                       /\ out.values[r][k + 1] \notin {NaN, 0}

\* C7 witness: March to August 2020 to QS (k1 = 2, k2 = 1)
C7_Witness ==
    /\ C7_Case
    /\ series.freq = "M"
    /\ _rule = "QS"
    /\ SlotOf("M", "QS", FirstTime(series)) = 2
    /\ Len(series.time_index) = 6
    /\ midas.status = "ok"
    /\ midas.ts.values = <<<<NaN, NaN, 1>>, <<2, 3, 4>>, <<5, 6, NaN>>>>

(***************************************************************************)
(* C8: round trip of a boundary-incomplete series.  For a univariate       *)
(* monthly series that does not start or end on a quarter boundary, with   *)
(* strip = false and strip = true alike, the inverse of the transform      *)
(* equals the series: same length and timestamps, no rows for the months   *)
(* the series did not cover.                                                *)
(***************************************************************************)
\* C8: the inverse of the transform of a boundary-incomplete series is the series
C8_IncompleteRoundTrip ==
    (/\ pc = "inverted"
     /\ kind = "high"
     /\ series.freq = "M"
     /\ _rule \in {"QS", "Q"}
     /\ ~CoversWholePeriods)
    => (/\ inverse.status = "ok"
        /\ Len(inverse.ts.time_index) = Len(series.time_index)
        /\ SameSeries(inverse.ts, series))

(***************************************************************************)
(* C9: quarter-end start correction.  For a wide series of a quarter-end   *)
(* anchored frequency (Q-DEC, Q-SEP) the inverse's monthly timestamps      *)
(* begin ratio - 1 months before the first quarter-end timestamp, so the   *)
(* last month of each output triple is the quarter-end month; for a        *)
(* quarter-start anchored frequency the first output month is the month    *)
(* of the first low timestamp.                                              *)
(***************************************************************************)
\* C9: the first month of the inverse for quarter-end and quarter-start frequencies
C9_QuarterEndStart ==
    (/\ pc = "inverted"
     /\ InverseInput.freq \in {"Q-DEC", "Q-SEP", "QS-JAN"}
     /\ Len(InverseInput.components) = 3)
    => LET w == InverseInput
           out == inverse.ts
       IN  /\ inverse.status = "ok"
           /\ w.freq \in {"Q-DEC", "Q-SEP"} =>
                 /\ MonthOf(FirstTime(out)) = MonthOf(FirstTime(w)) - 2
                 /\ \A r \in 1..Len(w.time_index) :
                       MonthOf(out.time_index[3 * r]) = MonthOf(w.time_index[r])
           /\ w.freq = "QS-JAN" => MonthOf(FirstTime(out)) = MonthOf(FirstTime(w))

(***************************************************************************)
(* C10: inverse frequency of fixed-duration units.  For a wide series at   *)
(* minute, hour or day frequency with `ratio` columns, the inverse emits   *)
(* ratio x rows timestamps that start at the first low timestamp and are   *)
(* (low-period duration / ratio) apart, paired with the values flattened   *)
(* row by row in offset order.                                              *)
(***************************************************************************)
\* C10: timestamps (low duration / ratio) apart from the first low timestamp
C10_FixedDurationInverse ==
    (pc = "inverted" /\ InverseInput.freq \in {"T", "H", "D"})
    => LET w == InverseInput
           ratio == Len(w.components)
           out == inverse.ts
       IN  /\ inverse.status = "ok"
           /\ Len(out.time_index) = ratio * Len(w.time_index)
           /\ \A i \in 1..Len(out.time_index) :
                 /\ out.time_index[i] = FirstTime(w) + (i - 1) * (TickUnit(w.freq) \div ratio)
                 /\ out.values[i] = <<w.values[((i - 1) \div ratio) + 1][((i - 1) % ratio) + 1]>>

(***************************************************************************)
(* C11: year-based targets.  For a monthly and for a quarterly series      *)
(* transformed to the annual-start frequency, the transform yields 12      *)
(* (resp. 4) columns per year, each cell holding the observation of its    *)
(* month (resp. quarter) and NaN for the uncovered ones, and the inverse   *)
(* of each result returns without error and reproduces the original        *)
(* series.                                                                  *)
(***************************************************************************)
\* the rows of the input observed in slot k of low period o
ObservedAt(o, k) ==
    {i \in 1..Len(series.time_index) :
        /\ Ordinal(LowOf(_rule), series.time_index[i]) = o
        /\ SlotOf(series.freq, _rule, series.time_index[i]) = k}

\* the observation of slot k of low period o, NaN when the input has none
SlotValue(o, k) ==
    IF ObservedAt(o, k) = {} THEN NaN
    ELSE series.values[CHOOSE i \in ObservedAt(o, k) : TRUE][1]

\* C11: 12 (resp. 4) columns per year, and the inverse reproduces the series
C11_AnnualTarget ==
    (pc # "start" /\ kind = "annual") =>
        LET ratio == 12 \div MonthsPer(series.freq)
            out == midas.ts
        IN  /\ midas.status = "ok"
            /\ Len(out.components) = ratio
            /\ Len(out.values) = TouchedLow
            /\ \A r \in 1..TouchedLow : \A k \in 0..(ratio - 1) :
                  out.values[r][k + 1] = SlotValue(FirstLow + r - 1, k)
            /\ (pc = "inverted" => (inverse.status = "ok" /\ SameSeries(inverse.ts, series)))

(***************************************************************************)
(* C12: static metadata fan-out.  The wide series returned by the          *)
(* transform of a series with static covariates carries one                *)
(* static-covariate row per wide column, the row of <c>_k being a copy of  *)
(* the row of component c, and the inverse returns exactly the static      *)
(* covariates of the original series.                                       *)
(***************************************************************************)
\* C12: one static-covariate row per wide column, restored by the inverse
C12_StaticFanOut ==
    (pc # "start" /\ kind = "static" /\ midas.status = "ok") =>
        LET n == Len(series.components)
            out == midas.ts
        IN  /\ Len(out.static_covariates) = Len(out.components)
            /\ \A j \in 1..Len(out.components) :
                  out.static_covariates[j] = series.static_covariates[((j - 1) % n) + 1]
            /\ (pc = "inverted" =>
                  /\ inverse.status = "ok"
                  /\ inverse.ts.static_covariates = series.static_covariates)

(***************************************************************************)
(* C13: validator.  _verify_series fails for every series with more than   *)
(* one stochastic sample and for every series without a datetime index,    *)
(* in forward and in inverse mode; it fails for a series of more than one  *)
(* component in forward mode only; in all other cases it returns; when it  *)
(* fails, ts_transform and ts_inverse_transform produce no output.         *)
(***************************************************************************)
VerifyErrors == {ErrProbabilistic, ErrIndex, ErrMultivariate}

\* the call failed in _verify_series and produced no output
FailedVerify(res) == res.status = "error" /\ res.error \in VerifyErrors /\ res.ts = NoSeries

\* the call got past _verify_series
PassedVerify(res) == res.status # "none" /\ res.error \notin VerifyErrors

C14_WrongRatio ==
    (pc = "inverted" /\ kind = "malformed") =>
        (inverse.status = "error" /\ inverse.ts = NoSeries)

(***************************************************************************)
(* C15: multivariate round trip.  For the wide series of a series with the *)
(* components A, B (columns A_0, B_0, A_1, B_1, ...), with or without      *)
(* interior NaN, the inverse returns a series with exactly the components  *)
(* A and B, ratio x rows timestamps, and the values and months of the      *)
(* original series.                                                         *)
(***************************************************************************)
\* C15: the inverse of an interleaved wide series has the two original components
C15_MultivariateRoundTrip ==
    (pc = "inverted" /\ kind = "wide_multivariate") =>
        LET w == series
            out == inverse.ts
            m0 == 3 * Ordinal("Q-DEC", FirstTime(w))
        IN  /\ inverse.status = "ok"
            /\ out.components = <<NameValues, NameOther>>
            /\ Len(out.time_index) = 3 * Len(w.time_index)
            /\ Len(out.values) = 3 * Len(w.time_index)
            /\ \A i \in 1..Len(out.values) :
                  /\ MonthOf(out.time_index[i]) = m0 + i - 1
                  /\ out.values[i] =
                        <<w.values[((i - 1) \div 3) + 1][2 * ((i - 1) % 3) + 1],
                          w.values[((i - 1) \div 3) + 1][2 * ((i - 1) % 3) + 2]>>

(***************************************************************************)
(* C16: component-name recovery.  For every base name b, with or without   *)
(* underscores, and every ratio r >= 2, among them r = 10 and r = 100      *)
(* where r has more digits than r - 1, the inverse of a wide series with   *)
(* the columns b_0 .. b_{r-1} returns a series whose single component is   *)
(* named exactly b.                                                         *)
(***************************************************************************)
\* C16: the single component of the inverse is the base name of the columns
C16_NameRecovery ==
    (pc = "inverted" /\ kind = "named") =>
        /\ inverse.status = "ok"
        /\ inverse.ts.components = <<DropLast(series.components[1], Len(<<"_", "0">>))>>

(***************************************************************************)
(* C17: alignment invariant.  Whenever the transform returns, for every    *)
(* row r and offset k the cell (r, <name>_k) holds the observation whose   *)
(* timestamp is the k-th high slot of the low period of row r, or NaN if   *)
(* the series has none; no observation appears in the row of a low period  *)
(* that does not contain its timestamp, for any frequency pair and any     *)
(* start and end position.                                                  *)
(***************************************************************************)
\* the low period of row r of the returned series
RowPeriod(r) == Ordinal(LowOf(_rule), midas.ts.time_index[r])

\* C17: every cell holds the observation of its slot of its row's low period
C17_Alignment ==
    (pc # "start" /\ midas.status = "ok") =>
        \A r \in 1..Len(midas.ts.values) : \A k \in 0..(Len(midas.ts.components) - 1) :
            LET cell == midas.ts.values[r][k + 1]
            IN  /\ cell = SlotValue(RowPeriod(r), k)
                /\ cell # NaN =>
                      \E i \in 1..Len(series.values) :
                          /\ series.values[i][1] = cell
                          /\ Ordinal(LowOf(_rule), series.time_index[i]) = RowPeriod(r)

(***************************************************************************)
(* C18: strip.  With strip = true the transform removes only the leading   *)
(* and trailing low rows in which every wide column is NaN; a boundary row *)
(* with at least one observation and every interior row is kept; so for    *)
(* any series whose first and last observations are not NaN the results    *)
(* with strip = true and strip = false are identical.                      *)
(***************************************************************************)
\* C18: what strip = true removes from the result of strip = false
C18_Strip ==
    (pc # "start" /\ midas.status = "ok" /\ _strip) =>
        LET full == ts_transform(series, _rule, FALSE).ts
            out == midas.ts
            n == Len(full.values)
            observed == {r \in 1..n : \E j \in 1..Len(full.values[r]) : full.values[r][j] # NaN}
        IN  /\ \E lo \in 1..n, hi \in 1..n :
                  /\ out.time_index = SubSeq(full.time_index, lo, hi)
                  /\ out.values = SubSeq(full.values, lo, hi)
                  /\ lo \in observed
                  /\ hi \in observed
                  /\ \A r \in observed : lo <= r /\ r <= hi
            /\ (/\ series.values[1][1] # NaN
                 /\ series.values[Len(series.values)][1] # NaN)
               => (out.time_index = full.time_index /\ out.values = full.values)

(***************************************************************************)
(* C19: index anchoring.  In the transform the choice between the          *)
(* period-end and the period-start conversion of the high-frequency        *)
(* periods is determined by the anchoring of the input series' own         *)
(* frequency (period end iff the series is stamped at period ends),        *)
(* independently of the anchoring of the target frequency; the rebuilt     *)
(* high-frequency index therefore carries the timestamps of the series.    *)
(* As first stated, the choice was determined by the anchoring of the      *)
(* target frequency, independently of the input's.                         *)
(***************************************************************************)
\* a frequency whose timestamps are the ends of its periods
EndAnchored(f) == RuleCode(f) \in {"M", "Q", "A"}

\* C19: the case of the claim: the transform reached the conversion
C19_Case ==
    /\ pc = "transformed"
    /\ _verify_series(series, TRUE) = ""
    /\ midas.error # ErrIncompatible

C20_TrainPointsBound ==
    (calls > 0 /\ ensemble.regression_train_n_points >= 0) =>
        (fitted.error = ErrTooBig =>
            \E i \in 1..Len(training.lens) :
                ensemble.regression_train_n_points > training.lens[i])

(***************************************************************************)
(* C21: regression_train_n_points = -1.  For a model built with -1, after  *)
(* any sequence of fit calls on series of possibly different lengths,      *)
(* each fit call trains the regressor on the entire series passed to that  *)
(* call (the shortest length, for a sequence) and never raises the         *)
(* 'parameter too big' error; the -1 setting is not replaced by the        *)
(* length seen in an earlier call.                                          *)
(***************************************************************************)
\* C21: every fit of a model built with -1 uses the whole series of that call
C21_MinusOneKept ==
    (calls > 0 /\ ensemble.regression_train_n_points = -1) =>
        /\ fitted.status = "ok"
        /\ fitted.error # ErrTooBig
        /\ \A i \in 1..Len(training.lens) :
              fitted.regression_target[i] = MinLen(training.lens)
        /\ ensemble.train_n_points = -1

====
